---- MODULE Spec2Model ----
(***************************************************************************)
(* A model of the Cognito authentication backend (djwarrant/backend.py),   *)
(* the session-guarded profile views and the logout view                   *)
(* (djwarrant/views/profile.py), with the attribute mappings of            *)
(* webapp/settings.py.  One action is one call of a backend operation or   *)
(* one dispatch of a view.                                                 *)
(***************************************************************************)
EXTENDS Integers, Sequences, FiniteSets, TLC

VARIABLES
    store,          \* the local user table: a set of rows [pk, username, fields]
    session,        \* request.session: session key -> value
    sessionDb,      \* the session data as last written to the session store
    createUnknown,  \* settings.COGNITO_CREATE_UNKNOWN_USERS
    attrMapping,    \* CognitoUser.COGNITO_ATTR_MAPPING
    last,           \* the operation just performed, its inputs and its outcome
    loggedOut,      \* history: a logout happened and no login has succeeded since
    mapL,           \* the attribute list last handed to the attribute mapper
    mapOut          \* the mapper's two outputs for mapL

vars == <<store, session, sessionDb, createUnknown, attrMapping, last, loggedOut,
          mapL, mapOut>>

(***************************************************************************)
(* Bounds of the model.                                                    *)
(***************************************************************************)
\* longest attribute list handed to the mapper on its own
MaxAttrs == 2
\* longest attribute list the provider returns in a login attempt
MaxLoginAttrs == 2

Usernames == {"alice", "bob"}
Values == {"a", "b"}
\* attribute names the provider returns: three that both mappings know, one
\* that only the settings mapping knows, one that no mapping knows
ProviderKeys == {"email", "given_name", "custom:api_key", "sub"}
\* the token triples the provider can issue
TokenSets == {1, 2}

(***************************************************************************)
(* Dictionaries are functions with a finite domain of strings.             *)
(***************************************************************************)
EmptyDict == [k \in {} |-> ""]

DictSet(d, k, v) == [x \in (DOMAIN d) \cup {k} |-> IF x = k THEN v ELSE d[x]]

Restrict(d, S) == [x \in (DOMAIN d) \cap S |-> d[x]]

\* setattr(obj, k, v) for every item of attrs, on the fields of a row
SetAttrs(fields, attrs) ==
    [f \in DOMAIN fields |-> IF f \in DOMAIN attrs THEN attrs[f] ELSE fields[f]]

(***************************************************************************)
(* Configuration.                                                          *)
(***************************************************************************)
\* settings.COGNITO_ATTR_MAPPING
SettingsMapping ==
    [k \in {"email", "given_name", "family_name", "custom:api_key", "custom:api_key_id"} |->
        CASE k = "email" -> "email"
          [] k = "given_name" -> "first_name"
          [] k = "family_name" -> "last_name"
          [] k = "custom:api_key" -> "api_key"
          [] k = "custom:api_key_id" -> "api_key_id"]

\* the mapping CognitoUser falls back to when the settings define none
DefaultMapping ==
    [k \in {"email", "given_name", "family_name"} |->
        CASE k = "email" -> "email"
          [] k = "given_name" -> "first_name"
          [] k = "family_name" -> "last_name"]

Mappings == {SettingsMapping, DefaultMapping}

\* the names of user_class._meta.get_fields() for django.contrib.auth's User:
\* its columns, its two many-to-many fields and the reverse relation of the
\* admin's log entries
DjangoFields ==
    {"logentry", "id", "password", "last_login", "is_superuser", "username",
     "first_name", "last_name", "email", "is_staff", "is_active", "date_joined",
     "groups", "user_permissions"}

\* the fields of a row that the model follows, besides its primary key and
\* its username: the three the mappings name and one they do not
RowFields == {"email", "first_name", "last_name", "is_staff"}

\* a new row's field values
DefaultFields == [f \in RowFields |-> IF f = "is_staff" THEN "False" ELSE ""]

UNAUTHORIZED_ERROR_CODE == "NotAuthorizedException"

USER_NOT_FOUND_ERROR_CODE == "UserNotFoundException"

(***************************************************************************)
(* The provider's answers.                                                 *)
(***************************************************************************)
NoExc == [cls |-> "", code |-> ""]

ClientError(code) == [cls |-> "ClientError", code |-> code]

\* a boto3 error: it has no response attribute
Boto3Error == [cls |-> "Boto3Error", code |-> ""]

\* an error that is neither a Boto3Error nor a ClientError
EndpointConnectionError == [cls |-> "EndpointConnectionError", code |-> ""]

AttributeError == [cls |-> "AttributeError", code |-> ""]

ProviderErrors ==
    {ClientError(UNAUTHORIZED_ERROR_CODE), ClientError(USER_NOT_FOUND_ERROR_CODE),
     ClientError("TooManyRequestsException"), Boto3Error, EndpointConnectionError}

\* the provider's answers to one call: no error, or one of the errors
Answers == ProviderErrors \cup {NoExc}

\* one run of the provider in a login attempt: the answer to authenticate and,
\* when that succeeded, the answer to the fetch of the user's attributes
ProviderRuns ==
    {[auth |-> e, fetch |-> NoExc] : e \in Answers}
      \cup {[auth |-> NoExc, fetch |-> ClientError("TooManyRequestsException")]}

\* the three tokens of the n-th triple the provider can issue
IssuedTokens(n) ==
    [access_token |-> <<"access", n>>, id_token |-> <<"id", n>>,
     refresh_token |-> <<"refresh", n>>]

NoTokens == [access_token |-> <<>>, id_token |-> <<>>, refresh_token |-> <<>>]

(***************************************************************************)
(* The attribute mapper.                                                   *)
(***************************************************************************)
\* utils.cognito_to_dict: every entry of the list under its local field name
\* when the mapping knows its key, under its own key otherwise; a later entry
\* replaces an earlier one of the same name
RECURSIVE cognito_to_dict(_, _)
cognito_to_dict(attr_list, mapping) ==
    IF attr_list = <<>> THEN EmptyDict
    ELSE LET n == Len(attr_list)
             a == attr_list[n]
             name == IF a.Name \in DOMAIN mapping THEN mapping[a.Name] ELSE a.Name
         IN DictSet(cognito_to_dict(SubSeq(attr_list, 1, n - 1), mapping), name, a.Value)

\* get_user_obj with the test of its loop inverted
ExtraNamesInverted(user_attrs, django_fields) ==
    {k \in DOMAIN user_attrs : k \in django_fields}

\* the names the loop of get_user_obj moves to extra_attrs
ExtraNames(user_attrs, django_fields) == {k \in DOMAIN user_attrs : k \notin django_fields}

\* get_user_obj up to the store access: user_attrs and extra_attrs
SplitAttrs(attribute_list, mapping) ==
    LET all == cognito_to_dict(attribute_list, mapping)
        moved == ExtraNames(all, DjangoFields)
    IN [user_attrs |-> Restrict(all, (DOMAIN all) \ moved),
        extra_attrs |-> Restrict(all, moved)]

(***************************************************************************)
(* The local user store.                                                   *)
(***************************************************************************)
NoRow == [pk |-> 0, username |-> "", fields |-> DefaultFields]

Matching(st, username) == {r \in st : r.username = username}

\* get_or_create in the place of update_or_create: an existing row is kept
get_or_create(st, username, defaults) ==
    LET found == Matching(st, username)
    IN IF found = {}
       THEN LET row == [pk |-> Cardinality(st) + 1, username |-> username,
                        fields |-> SetAttrs(DefaultFields, defaults)]
            IN [found |-> TRUE, row |-> row, store |-> st \cup {row}]
       ELSE LET old == CHOOSE r \in found : TRUE
            IN [found |-> TRUE, row |-> old, store |-> st]

\* objects.update_or_create(username=username, defaults=user_attrs)
update_or_create(st, username, defaults) ==
    LET found == Matching(st, username)
    IN IF found = {}
       THEN LET row == [pk |-> Cardinality(st) + 1, username |-> username,
                        fields |-> SetAttrs(DefaultFields, defaults)]
            IN [found |-> TRUE, row |-> row, store |-> st \cup {row}]
       ELSE LET old == CHOOSE r \in found : TRUE
                row == [old EXCEPT !.fields = SetAttrs(old.fields, defaults)]
            IN [found |-> TRUE, row |-> row, store |-> (st \ {old}) \cup {row}]

\* the else branch creating the missing row all the same
get_or_create_and_save(st, username, user_attrs) ==
    update_or_create(st, username, user_attrs)

\* the else branch saving a fresh object in the place of the one it read
get_and_replace(st, username, user_attrs) ==
    LET found == Matching(st, username)
    IN IF found = {}
       THEN [found |-> FALSE, row |-> NoRow, store |-> st]
       ELSE LET old == CHOOSE r \in found : TRUE
                row == [old EXCEPT !.fields = SetAttrs(DefaultFields, user_attrs)]
            IN [found |-> TRUE, row |-> row, store |-> (st \ {old}) \cup {row}]

\* objects.get(username=username), setattr for every item, save; or no user
get_and_save(st, username, user_attrs) ==
    LET found == Matching(st, username)
    IN IF found = {}
       THEN [found |-> FALSE, row |-> NoRow, store |-> st]
       ELSE LET old == CHOOSE r \in found : TRUE
                row == [old EXCEPT !.fields = SetAttrs(old.fields, user_attrs)]
            IN [found |-> TRUE, row |-> row, store |-> (st \ {old}) \cup {row}]

\* CognitoUser.get_user_obj: the user object (or none) and the store afterwards
get_user_obj(st, create, mapping, username, attribute_list) ==
    LET split == SplitAttrs(attribute_list, mapping)
        r == IF create THEN update_or_create(st, username, split.user_attrs)
             ELSE get_and_save(st, username, split.user_attrs)
    IN [found |-> r.found, row |-> r.row, store |-> r.store,
        user_attrs |-> split.user_attrs,
        extra_attrs |-> IF r.found THEN split.extra_attrs ELSE EmptyDict]

(***************************************************************************)
(* The authentication backend.                                             *)
(***************************************************************************)
NoUser == [pk |-> 0, username |-> "", fields |-> DefaultFields,
           extras |-> EmptyDict, tokens |-> NoTokens]

\* the outcome of a backend call: ret is "user", "none", "response" or "raise"
Outcome(ret, exc, user, st, user_attrs) ==
    [ret |-> ret, exc |-> exc, user |-> user, store |-> st, user_attrs |-> user_attrs]

\* handle_error_response knowing the first error code only
handle_unauthorized_only(error) ==
    IF error.cls # "ClientError"
    THEN [ret |-> "raise", exc |-> AttributeError]
    ELSE IF error.code \in {UNAUTHORIZED_ERROR_CODE}
         THEN [ret |-> "none", exc |-> NoExc]
         ELSE [ret |-> "raise", exc |-> error]

\* AbstractCognitoBackend.handle_error_response: none for the two designated
\* error codes, the error raised again otherwise; reading the response of an
\* error that has none raises an AttributeError
handle_error_response(error) ==
    IF error.cls # "ClientError"
    THEN [ret |-> "raise", exc |-> AttributeError]
    ELSE IF error.code \in {UNAUTHORIZED_ERROR_CODE, USER_NOT_FOUND_ERROR_CODE}
         THEN [ret |-> "none", exc |-> NoExc]
         ELSE [ret |-> "raise", exc |-> error]

\* the except clause of authenticate and register
Caught(error) == error.cls \in {"Boto3Error", "ClientError"}

\* the user object authenticate returns: the row, the extra attributes set on
\* it, and the three tokens of the provider's answer
UserObject(g, tokens) ==
    [pk |-> g.row.pk, username |-> g.row.username, fields |-> g.row.fields,
     extras |-> g.extra_attrs, tokens |-> tokens]

\* AbstractCognitoBackend.authenticate
AbstractAuthenticate(st, create, mapping, username, run, attribute_list, tokens) ==
    IF run.auth # NoExc
    THEN IF Caught(run.auth)
         THEN LET h == handle_error_response(run.auth)
              IN Outcome(h.ret, h.exc, NoUser, st, EmptyDict)
         ELSE Outcome("raise", run.auth, NoUser, st, EmptyDict)
    ELSE IF run.fetch # NoExc
         THEN Outcome("raise", run.fetch, NoUser, st, EmptyDict)
         ELSE LET g == get_user_obj(st, create, mapping, username, attribute_list)
              IN IF g.found
                 THEN Outcome("user", NoExc, UserObject(g, tokens), g.store, g.user_attrs)
                 ELSE Outcome("none", NoExc, NoUser, g.store, g.user_attrs)

(***************************************************************************)
(* The session.  A key that is not set reads as None.                      *)
(***************************************************************************)
None == <<>>

SessionKeys == {"ACCESS_TOKEN", "ID_TOKEN", "REFRESH_TOKEN"}

\* request.session.get(key)
SessionGet(sess, key) == IF key \in DOMAIN sess THEN sess[key] ELSE None

\* the tokens of r's user set in sess
WithTokens(sess, r) ==
    DictSet(DictSet(DictSet(sess, "ACCESS_TOKEN", r.user.tokens.access_token),
                    "ID_TOKEN", r.user.tokens.id_token),
            "REFRESH_TOKEN", r.user.tokens.refresh_token)

\* CognitoBackend.authenticate without its session.save()
BindSessionUnsaved(sess, db, r) ==
    IF r.ret = "user"
    THEN [session |-> WithTokens(sess, r), sessionDb |-> db]
    ELSE [session |-> sess, sessionDb |-> db]

\* CognitoBackend.authenticate without its test of the user
BindSessionAlways(sess, db, r) ==
    [session |-> WithTokens(sess, r), sessionDb |-> WithTokens(sess, r)]

\* the session part of CognitoBackend.authenticate: the three tokens of a
\* returned user are set in the session and the session is saved
BindSession(sess, db, r) ==
    IF r.ret = "user"
    THEN LET s == WithTokens(sess, r)
         IN [session |-> s, sessionDb |-> s]
    ELSE [session |-> sess, sessionDb |-> db]

\* the attribute lists of a login attempt: the provider returns every
\* attribute once, here in the order of KeyOrder
KeyOrder == <<"email", "given_name", "custom:api_key">>

RECURSIVE ListsFrom(_, _)
ListsFrom(i, room) ==
    IF i > Len(KeyOrder) THEN {<<>>}
    ELSE LET rest == ListsFrom(i + 1, room)
             with == IF room = 0 THEN {}
                     ELSE {<<[Name |-> KeyOrder[i], Value |-> v]>> \o t :
                              v \in Values, t \in ListsFrom(i + 1, room - 1)}
         IN rest \cup with

LoginAttrLists == ListsFrom(1, MaxLoginAttrs)

\* the attribute lists of the logins of Spec: the e-mail address or nothing
EmailAttrLists == {<<>>} \cup {<<[Name |-> "email", Value |-> v]>> : v \in Values}

NoRun == [auth |-> NoExc, fetch |-> NoExc]

NoOutcome == Outcome("", NoExc, NoUser, {}, EmptyDict)

NoSent == [username |-> "", password |-> "", attrs |-> EmptyDict]

NoForm == [email |-> "", first_name |-> "", last_name |-> ""]

\* the record of an operation: its inputs (username, form, the provider's
\* answers and the tokens it issued) and its outcome; authenticated is set by
\* the views, for the request's user
Last(op, username, form, run, issued, r, sent, response, called) ==
    [op |-> op, username |-> username, form |-> form, run |-> run, issued |-> issued,
     ret |-> r.ret, exc |-> r.exc, user |-> r.user, user_attrs |-> r.user_attrs,
     sent |-> sent, response |-> response, called |-> called,
     authenticated |-> FALSE]

\* CognitoBackend.authenticate(request, username, password)
Authenticate(username, run, attribute_list, n) ==
    LET issued == IF run.auth = NoExc THEN IssuedTokens(n) ELSE NoTokens
        r == AbstractAuthenticate(store, createUnknown, attrMapping, username, run,
                                  attribute_list, issued)
        s == BindSession(session, sessionDb, r)
    IN /\ store' = r.store
       /\ session' = s.session
       /\ sessionDb' = s.sessionDb
       /\ last' = Last("authenticate", username, NoForm, run, issued, r, NoSent, None, TRUE)
       /\ loggedOut' = (loggedOut /\ r.ret # "user")
       /\ UNCHANGED <<createUnknown, attrMapping, mapL, mapOut>>

LoginWith(lists, tokenSets) ==
    \E username \in Usernames, run \in ProviderRuns :
        \E attribute_list \in (IF run = NoRun THEN lists ELSE {<<>>}),
           n \in (IF run.auth = NoExc THEN tokenSets ELSE {1}) :
            Authenticate(username, run, attribute_list, n)

Login == LoginWith(EmailAttrLists, TokenSets)

LoginAnyAttrs == LoginWith(LoginAttrLists, {1})

(***************************************************************************)
(* Registration.                                                           *)
(***************************************************************************)
SignUpForms ==
    {[email |-> "a", first_name |-> "b", last_name |-> "c"],
     [email |-> "c", first_name |-> "a", last_name |-> "a"]}

Passwords == {"pw"}

\* the provider's answer to a successful sign-up
SignUpResponse(sent) == <<"SignUp", sent.username>>

\* CognitoBackend.register: what is sent to the provider and what comes back
register(username, password, email, first_name, last_name, answer) ==
    LET attrs == [given_name |-> first_name, family_name |-> last_name, email |-> email]
        sent == [username |-> username, password |-> password, attrs |-> attrs]
    IN IF answer # NoExc
       THEN IF Caught(answer)
            THEN LET h == handle_error_response(answer)
                 IN [ret |-> h.ret, exc |-> h.exc, sent |-> sent, response |-> None]
            ELSE [ret |-> "raise", exc |-> answer, sent |-> sent, response |-> None]
       ELSE [ret |-> "response", exc |-> NoExc, sent |-> sent,
             response |-> SignUpResponse(sent)]

Register ==
    \E username \in Usernames, password \in Passwords, form \in SignUpForms,
       answer \in Answers :
        LET g == register(username, password, form.email, form.first_name,
                          form.last_name, answer)
            r == Outcome(g.ret, g.exc, NoUser, store, EmptyDict)
        IN /\ last' = Last("register", username, form, [auth |-> answer, fetch |-> NoExc],
                           NoTokens, r, g.sent, g.response, TRUE)
           /\ UNCHANGED <<store, session, sessionDb, createUnknown, attrMapping,
                          loggedOut, mapL, mapOut>>

(***************************************************************************)
(* The views.                                                              *)
(***************************************************************************)
\* TokenMixin.dispatch: no permission without a refresh token in the session
TokenMixinDispatch(sess) ==
    IF SessionGet(sess, "REFRESH_TOKEN") = None THEN "denied" ELSE "pass"

\* the dispatch of ProfileView and UpdateProfileView: LoginRequiredMixin, then
\* TokenMixin, then the view, which asks the provider for the user
ViewDispatch(authenticated, sess, answer) ==
    IF ~authenticated THEN [ret |-> "denied", exc |-> NoExc, called |-> FALSE]
    ELSE IF TokenMixinDispatch(sess) = "denied"
         THEN [ret |-> "denied", exc |-> NoExc, called |-> FALSE]
         ELSE IF answer # NoExc
              THEN [ret |-> "raise", exc |-> answer, called |-> TRUE]
              ELSE [ret |-> "rendered", exc |-> NoExc, called |-> TRUE]

View(op) ==
    \E authenticated \in BOOLEAN, answer \in Answers :
        LET v == ViewDispatch(authenticated, session, answer)
            r == Outcome(v.ret, v.exc, NoUser, store, EmptyDict)
        IN /\ last' = [Last(op, "", NoForm,
                             [auth |-> IF v.called THEN answer ELSE NoExc, fetch |-> NoExc],
                             NoTokens, r, NoSent, None, v.called)
                           EXCEPT !.authenticated = authenticated]
           /\ UNCHANGED <<store, session, sessionDb, createUnknown, attrMapping,
                          loggedOut, mapL, mapOut>>

ProfileView == View("profile")

UpdateProfileView == View("update-profile")

\* request.session.delete(): the stored session is removed
SessionDelete(s) == [session |-> s.session, sessionDb |-> EmptyDict]

\* the logout view of the framework: the session is flushed
SessionFlush(s) == [session |-> EmptyDict, sessionDb |-> EmptyDict]

\* LogoutView.dispatch without the call of the framework's logout view
LogoutDeleteOnly(sess, db) == SessionDelete([session |-> sess, sessionDb |-> db])

\* LogoutView.dispatch
LogoutDispatch(sess, db) == SessionFlush(SessionDelete([session |-> sess, sessionDb |-> db]))

Logout ==
    LET s == LogoutDispatch(session, sessionDb)
    IN /\ session' = s.session
       /\ sessionDb' = s.sessionDb
       /\ last' = Last("logout", "", NoForm, NoRun, NoTokens,
                       Outcome("ok", NoExc, NoUser, store, EmptyDict), NoSent, None, FALSE)
       /\ loggedOut' = TRUE
       /\ UNCHANGED <<store, createUnknown, attrMapping, mapL, mapOut>>

(***************************************************************************)
(* The attribute mapper on its own.                                        *)
(***************************************************************************)
Attrs == {[Name |-> k, Value |-> v] : k \in ProviderKeys, v \in Values}

RECURSIVE SeqsUpTo(_, _)
SeqsUpTo(S, n) ==
    IF n = 0 THEN {<<>>}
    ELSE LET shorter == SeqsUpTo(S, n - 1)
         IN shorter \cup {Append(s, x) : s \in {t \in shorter : Len(t) = n - 1}, x \in S}

MapAttributes ==
    \E attribute_list \in SeqsUpTo(Attrs, MaxAttrs) :
        /\ mapL' = attribute_list
        /\ mapOut' = SplitAttrs(attribute_list, attrMapping)
        /\ UNCHANGED <<store, session, sessionDb, createUnknown, attrMapping, last,
                       loggedOut>>

(***************************************************************************)
(* Specifications.                                                         *)
(***************************************************************************)
\* rows that exist before the first login (created outside this backend)
AliceRow == [pk |-> 1, username |-> "alice",
             fields |-> [DefaultFields EXCEPT !["email"] = "a", !["last_name"] = "b",
                                              !["is_staff"] = "True"]]

BobRow == [pk |-> 2, username |-> "bob",
           fields |-> [DefaultFields EXCEPT !["first_name"] = "b"]]

InitialStores == {{}, {AliceRow}, {AliceRow, BobRow}}

NoMapOut == [user_attrs |-> EmptyDict, extra_attrs |-> EmptyDict]

InitWith(mappings) ==
    /\ store \in InitialStores
    /\ session = EmptyDict
    /\ sessionDb = EmptyDict
    /\ createUnknown \in BOOLEAN
    /\ attrMapping \in mappings
    /\ last = Last("", "", NoForm, NoRun, NoTokens, NoOutcome, NoSent, None, FALSE)
    /\ loggedOut = FALSE
    /\ mapL = <<>>
    /\ mapOut = NoMapOut

\* the deployment: the mapping of the settings
Init == InitWith({SettingsMapping})

Next == Login \/ Register \/ ProfileView \/ UpdateProfileView \/ Logout

\* logins, registrations, profile requests and logouts in any order
Spec == Init /\ [][Next]_vars

\* logins with every attribute list, for the provisioning of local users
ProvisionSpec == Init /\ [][LoginAnyAttrs]_vars

MapperInit == InitWith(Mappings)

\* the attribute mapper applied to any attribute list under either mapping
MapperSpec == MapperInit /\ [][MapAttributes]_vars

(***************************************************************************)
(* Properties.                                                             *)
(***************************************************************************)
\* the provider errors that a login attempt answers with none
Rejecting == {ClientError(UNAUTHORIZED_ERROR_CODE), ClientError(USER_NOT_FOUND_ERROR_CODE)}

\* the step just taken was a call of authenticate
Authenticated == last'.op = "authenticate"

\* C1: a login attempt that the provider answers with NotAuthorizedException
\* or UserNotFoundException returns none and leaves the user store as it was.
C1_RejectedReturnsNoneAndWritesNothing ==
    [][(Authenticated /\ last'.run.auth \in Rejecting)
          => (last'.ret = "none" /\ last'.user = NoUser /\ store' = store)]_vars

C1_Witness ==
    /\ last.op = "authenticate"
    /\ last.run.auth = ClientError(USER_NOT_FOUND_ERROR_CODE)
    /\ last.ret = "none"
    /\ store # {}

\* C2: a login attempt that the provider answers with any other error raises
\* that same error and leaves the user store as it was.
C2_OtherErrorsPropagateUnchanged ==
    [][(Authenticated /\ last'.run.auth \notin Rejecting \cup {NoExc})
          => (last'.ret = "raise" /\ last'.exc = last'.run.auth /\ store' = store)]_vars

\* C4: with auto-provisioning disabled and no row for the username, a login
\* attempt the provider accepts returns none, creates no row and leaves the
\* session and the stored session as they were.
C4_NoRecordNoProvisionYieldsNone ==
    [][(Authenticated /\ ~createUnknown /\ last'.run = NoRun
          /\ Matching(store, last'.username) = {})
          => (last'.ret = "none" /\ last'.user = NoUser /\ store' = store
              /\ session' = session /\ sessionDb' = sessionDb)]_vars

C4_Witness ==
    /\ last.op = "authenticate"
    /\ ~createUnknown
    /\ last.run = NoRun
    /\ last.ret = "none"
    /\ Matching(store, last.username) = {}
    /\ store # {}

\* C6: when authenticate returns a user, the user carries the three tokens the
\* provider issued in this attempt, the session holds the same three values
\* under ACCESS_TOKEN, ID_TOKEN and REFRESH_TOKEN, and the session is saved.
C6_ReturnedUserCarriesTokensAndSessionSaved ==
    (last.op = "authenticate" /\ last.ret = "user")
        => /\ last.issued \in {IssuedTokens(n) : n \in TokenSets}
           /\ last.user.tokens = last.issued
           /\ SessionGet(session, "ACCESS_TOKEN") = last.issued.access_token
           /\ SessionGet(session, "ID_TOKEN") = last.issued.id_token
           /\ SessionGet(session, "REFRESH_TOKEN") = last.issued.refresh_token
           /\ sessionDb = session

C6_Witness ==
    /\ last.op = "authenticate"
    /\ last.ret = "user"
    /\ last.issued = IssuedTokens(2)
    /\ SessionGet(session, "REFRESH_TOKEN") = <<"refresh", 2>>

\* C7: after a logout and until the next login that returns a user, none of
\* the three session keys is set, and every profile or update-profile request
\* is denied without a call of the provider.
C7_NoProfileAfterLogout ==
    loggedOut
        => /\ (DOMAIN session) \cap SessionKeys = {}
           /\ (DOMAIN sessionDb) \cap SessionKeys = {}
           /\ last.op \in {"profile", "update-profile"}
                 => (last.ret = "denied" /\ ~last.called)

C7_Witness ==
    /\ loggedOut
    /\ last.op = "profile"
    /\ last.authenticated
    /\ last.ret = "denied"
    /\ store # {}

\* the three session keys are all set or all absent
TokensAllOrNone == (DOMAIN session) \cap SessionKeys \in {{}, SessionKeys}

\* C10: a login attempt that returns no user leaves the session and the stored
\* session as they were, and the three session keys are always all set or all
\* absent.
C10_FailedLoginLeavesSession ==
    /\ []TokensAllOrNone
    /\ [][(Authenticated /\ last'.ret # "user")
             => (session' = session /\ sessionDb' = sessionDb)]_vars

C10_Witness ==
    /\ last.op = "authenticate"
    /\ last.run = NoRun
    /\ last.ret = "none"
    /\ SessionGet(session, "REFRESH_TOKEN") # None
    /\ sessionDb = session

\* C3: with auto-provisioning enabled, a login the provider accepts returns a
\* user and leaves exactly one row for the username, whose fields named in the
\* mapper output hold the values of this attempt; where there was no row
\* before, that one row is new, all other rows are kept and its remaining
\* fields are the defaults of a new row; no username ever has two rows.
C3_AutoProvisionUpsertsOneRecord ==
    [][(Authenticated /\ createUnknown /\ last'.run = NoRun)
          => LET u == last'.username
                 rows == Matching(store', u)
             IN /\ last'.ret = "user"
                /\ Cardinality(rows) = 1
                /\ \A r \in rows :
                      /\ last'.user.pk = r.pk
                      /\ last'.user.fields = r.fields
                      /\ \A f \in DOMAIN last'.user_attrs :
                            r.fields[f] = last'.user_attrs[f]
                /\ Matching(store, u) = {}
                      => /\ store' = store \cup rows
                         /\ \A r \in rows :
                               r.fields = SetAttrs(DefaultFields, last'.user_attrs)
                /\ \A w \in Usernames : Cardinality(Matching(store', w)) <= 1]_vars

\* a later login of a user created by an earlier one: bob's row, the first of
\* the store, keeps the first name of the earlier login and takes the e-mail
\* address of this one
C3_Witness ==
    /\ createUnknown
    /\ last.op = "authenticate"
    /\ last.ret = "user"
    /\ last.username = "bob"
    /\ last.user.pk = 1
    /\ last.user_attrs = [email |-> "b"]
    /\ \E r \in store : /\ r.username = "bob"
                        /\ r.fields["first_name"] = "a"
                        /\ r.fields["email"] = "b"

\* C5: with auto-provisioning disabled and a row for the username, a login the
\* provider accepts overwrites in that row exactly the fields of the mapper
\* output; its other fields, its key and username and all other rows stay.
C5_UpdateInPlaceTouchesMappedFieldsOnly ==
    [][(Authenticated /\ ~createUnknown /\ last'.run = NoRun
          /\ Matching(store, last'.username) # {})
          => /\ last'.ret = "user"
             /\ \E old \in store, new \in store' :
                   /\ old.username = last'.username
                   /\ new.username = old.username
                   /\ new.pk = old.pk
                   /\ last'.user.pk = new.pk
                   /\ store' = (store \ {old}) \cup {new}
                   /\ \A f \in RowFields :
                         new.fields[f] = IF f \in DOMAIN last'.user_attrs
                                         THEN last'.user_attrs[f]
                                         ELSE old.fields[f]]_vars

\* alice's login brings a first name only: her e-mail address, last name and
\* staff flag are those of her row before, and bob's row is there as it was
C5_Witness ==
    /\ ~createUnknown
    /\ last.op = "authenticate"
    /\ last.ret = "user"
    /\ last.username = "alice"
    /\ last.user_attrs = [first_name |-> "b"]
    /\ BobRow \in store
    /\ \E r \in store : /\ r.username = "alice"
                        /\ r.fields["first_name"] = "b"
                        /\ r.fields["email"] = AliceRow.fields["email"]
                        /\ r.fields["last_name"] = AliceRow.fields["last_name"]
                        /\ r.fields["is_staff"] = "True"

\* the local name of a provider key under a mapping
LocalName(k, mapping) == IF k \in DOMAIN mapping THEN mapping[k] ELSE k

\* the value of the last entry of the list whose key is k
LastValueOfKey(attribute_list, k) ==
    LET at == {i \in 1..Len(attribute_list) : attribute_list[i].Name = k}
    IN attribute_list[CHOOSE i \in at : \A j \in at : j <= i].Value

\* the value of the last entry of the list whose local name is name
LastValueOfName(attribute_list, name, mapping) ==
    LET at == {i \in 1..Len(attribute_list) :
                  LocalName(attribute_list[i].Name, mapping) = name}
    IN attribute_list[CHOOSE i \in at : \A j \in at : j <= i].Value

\* C8 as stated: a key of the list is in the mapped fields, under the
\* mapping's field name, exactly when the mapping has it, and in the extra
\* fields, under its own name and with its raw value, exactly when not.
C8_PartitionByMapping ==
    \A i \in 1..Len(mapL) :
        LET k == mapL[i].Name
        IN IF k \in DOMAIN attrMapping
           THEN /\ attrMapping[k] \in DOMAIN mapOut.user_attrs
                /\ attrMapping[k] \notin DOMAIN mapOut.extra_attrs
                /\ k \notin DOMAIN mapOut.extra_attrs
           ELSE /\ k \in DOMAIN mapOut.extra_attrs
                /\ mapOut.extra_attrs[k] = LastValueOfKey(mapL, k)
                /\ k \notin DOMAIN mapOut.user_attrs

\* C8 amended: the two outputs share no name and hold between them exactly the
\* local names of the list's keys; a name is in the mapped fields exactly when
\* it is a field of the user model and in the extra fields otherwise, with the
\* value of the last entry of the list that has this name.
C8_PartitionByModelFields ==
    LET names == {LocalName(mapL[i].Name, attrMapping) : i \in 1..Len(mapL)}
    IN /\ (DOMAIN mapOut.user_attrs) \cap (DOMAIN mapOut.extra_attrs) = {}
       /\ (DOMAIN mapOut.user_attrs) \cup (DOMAIN mapOut.extra_attrs) = names
       /\ \A name \in names :
             IF name \in DjangoFields
             THEN /\ name \in DOMAIN mapOut.user_attrs
                  /\ mapOut.user_attrs[name] = LastValueOfName(mapL, name, attrMapping)
             ELSE /\ name \in DOMAIN mapOut.extra_attrs
                  /\ mapOut.extra_attrs[name] = LastValueOfName(mapL, name, attrMapping)

\* a key the mapping has, whose field name is no field of the user model, next
\* to one whose field name is
C8_Witness ==
    /\ Len(mapL) = 2
    /\ attrMapping = SettingsMapping
    /\ mapL[1].Name = "custom:api_key"
    /\ mapL[2].Name = "given_name"
    /\ DOMAIN mapOut.extra_attrs = {"api_key"}
    /\ DOMAIN mapOut.user_attrs = {"first_name"}

\* C9: register sends e-mail address, first and last name to the provider as
\* email, given_name and family_name; it returns none for the two designated
\* errors, raises every other provider error, returns the provider's response
\* on success; it writes neither the user store nor the session.
C9_RegisterForwardsAndFollowsErrorPolicy ==
    [][(last'.op = "register")
          => /\ last'.sent.attrs = [email |-> last'.form.email,
                                    given_name |-> last'.form.first_name,
                                    family_name |-> last'.form.last_name]
             /\ last'.sent.username = last'.username
             /\ last'.run.auth \in Rejecting => last'.ret = "none"
             /\ last'.run.auth \notin Rejecting \cup {NoExc}
                   => (last'.ret = "raise" /\ last'.exc = last'.run.auth)
             /\ last'.run.auth = NoExc
                   => (last'.ret = "response"
                       /\ last'.response = SignUpResponse(last'.sent))
             /\ store' = store
             /\ session' = session
             /\ sessionDb' = sessionDb]_vars

====
